---- MODULE Spec2Model ----
(***************************************************************************)
(* A model of sqliteadmin-go: the HTTP command handler (HandlePost), the   *)
(* condition compiler (toCondition / getCondition / getClause) and the     *)
(* row reader and writer (queryTable, batchDelete, editRow) working on a   *)
(* small SQLite database.                                                  *)
(*                                                                         *)
(* SQL text is a sequence of tokens; a statement handed to the driver is   *)
(* a record [text, args, ok].  Request parameters are JSON values, kept    *)
(* as tagged records so that the type switches of the Go code can be       *)
(* modelled.                                                               *)
(***************************************************************************)
EXTENDS Integers, Sequences, FiniteSets, TLC

VARIABLES config, db, pc, req, resp, log, rawCond, compiled, deleter, reader

vars == <<config, db, pc, req, resp, log, rawCond, compiled, deleter, reader>>

---------------------------------------------------------------------------
(* Bounds of the model.                                                    *)

\* most cases, nested ones counted, in an enumerated condition tree
MaxSize == 3
\* number of rows seeded in table users
MaxRows == 4

---------------------------------------------------------------------------
(* Program constants.                                                      *)

DefaultLimit == 100
DefaultOffset == 0

OperatorEquals == "eq"
OperatorLike == "like"
OperatorNotEquals == "neq"
OperatorLessThan == "lt"
OperatorLessThanOrEquals == "lte"
OperatorGreaterThan == "gt"
OperatorGreaterThanOrEquals == "gte"
OperatorIsNull == "null"
OperatorIsNotNull == "notnull"

LogicalOperatorAnd == "and"
LogicalOperatorOr == "or"

StatusOK == 200
StatusBadRequest == 400
StatusUnauthorized == 401
StatusInternalServerError == 500

---------------------------------------------------------------------------
(* JSON values as decoded by encoding/json into interface{}.               *)

JNull == [k |-> "null"]
JStr(s) == [k |-> "str", s |-> s]
JNum(n) == [k |-> "num", n |-> n]
JBool(b) == [k |-> "bool", b |-> b]
JList(l) == [k |-> "list", l |-> l]
JMap(m) == [k |-> "map", m |-> m]

\* m[key] of a Go map[string]interface{}: nil when the key is absent
Get(m, key) == IF key \in DOMAIN m THEN m[key] ELSE JNull

---------------------------------------------------------------------------
(* Condition trees: type Filter, type Condition.                           *)

Filter(column, operator, value) ==
  [type |-> "filter", Column |-> column, Operator |-> operator, Value |-> value]

Condition(cases, op) ==
  [type |-> "condition", Cases |-> cases, LogicalOperator |-> op]

ConditionCaseType(c) == c.type

\* mapstructure.Decode(c, &filter): a string or nil for each field, else an error
decodeFilter(caseMap) ==
  LET col == Get(caseMap, "column")
      op  == Get(caseMap, "operator")
      val == Get(caseMap, "value")
      str(v) == IF v.k = "str" THEN v.s ELSE ""
  IN IF \E v \in {col, op, val} : v.k \notin {"null", "str"}
     THEN [st |-> "fail", case |-> Filter("", "", "")]
     ELSE [st |-> "ok", case |-> Filter(str(col), str(op), str(val))]

RECURSIVE toCondition(_)
RECURSIVE toCases(_)

\* the loop over cases of toCondition; stops at the first case that fails
toCases(cases) ==
  IF cases = <<>> THEN [st |-> "ok", cases |-> <<>>]
  ELSE LET c == Head(cases) IN
       IF c.k # "map" THEN [st |-> "fail", cases |-> <<>>]
       ELSE LET one == IF Get(c.m, "logicalOperator").k # "null"
                       THEN LET sub == toCondition(c)
                            IN [st |-> sub.st, case |-> sub.cond]
                       ELSE decodeFilter(c.m)
            IN IF one.st # "ok" THEN [st |-> one.st, cases |-> <<>>]
               ELSE LET rest == toCases(Tail(cases))
                    IN IF rest.st # "ok" THEN rest
                       ELSE [st |-> "ok", cases |-> <<one.case>> \o rest.cases]

\* st is "ok", "fail" (the second result is false) or "panic" (the type
\* assertion of logicalOperator to string fails)
toCondition(val) ==
  IF val.k # "map" THEN [st |-> "fail", cond |-> Condition(<<>>, "")]
  ELSE LET valMap == val.m
           casesV == Get(valMap, "cases")
           cs == IF casesV.k = "null" THEN [st |-> "ok", cases |-> <<>>]
                 ELSE IF casesV.k # "list" THEN [st |-> "fail", cases |-> <<>>]
                 ELSE toCases(casesV.l)
           lo == Get(valMap, "logicalOperator")
       IN IF cs.st # "ok" THEN [st |-> cs.st, cond |-> Condition(<<>>, "")]
          ELSE IF lo.k = "null" THEN [st |-> "ok", cond |-> Condition(cs.cases, "")]
          ELSE IF lo.k # "str" THEN [st |-> "panic", cond |-> Condition(<<>>, "")]
          ELSE [st |-> "ok", cond |-> Condition(cs.cases, lo.s)]

---------------------------------------------------------------------------
(* The condition compiler.                                                 *)

\* the SQL text of one filter: empty for an operator outside the nine
getClause(filter) ==
  CASE filter.Operator = OperatorEquals -> <<filter.Column, "=", "?">>
    [] filter.Operator = OperatorLike ->
         <<filter.Column, "LIKE", "'%'", "||", "?", "||", "'%'">>
    [] filter.Operator = OperatorNotEquals -> <<filter.Column, "!=", "?">>
    [] filter.Operator = OperatorLessThan -> <<filter.Column, "<", "?">>
    [] filter.Operator = OperatorLessThanOrEquals -> <<filter.Column, "<=", "?">>
    [] filter.Operator = OperatorGreaterThan -> <<filter.Column, ">", "?">>
    [] filter.Operator = OperatorGreaterThanOrEquals -> <<filter.Column, ">=", "?">>
    [] filter.Operator = OperatorIsNull -> <<filter.Column, "IS", "NULL">>
    [] filter.Operator = OperatorIsNotNull -> <<filter.Column, "IS", "NOT", "NULL">>
    [] OTHER -> <<>>

\* the bound values one filter case adds to args
filterArgs(filter) == <<filter.Value>>

\* the nested clause added without its parentheses
wrapSubClause_Bare(subClause) == subClause

\* the text a nested condition case adds to the clause
wrapSubClause(subClause) == <<"(">> \o subClause \o <<")">>

\* the text put before case number i (counted from 1) of a node
joinToken(condition, i) ==
  IF i > 1 THEN <<condition.LogicalOperator>> ELSE <<>>

RECURSIVE getCondition(_)
RECURSIVE getConditionLoop(_, _)

\* the state of (clause, args) after the first n cases of the loop
getConditionLoop(condition, n) ==
  IF n = 0 THEN [clause |-> <<>>, args |-> <<>>]
  ELSE LET prev == getConditionLoop(condition, n - 1)
           c == condition.Cases[n]
           sep == joinToken(condition, n)
       IN IF ConditionCaseType(c) = "condition"
          THEN LET sub == getCondition(c)
               IN [clause |-> prev.clause \o sep \o wrapSubClause(sub.clause),
                   args |-> prev.args \o sub.args]
          ELSE [clause |-> prev.clause \o sep \o getClause(c),
                args |-> prev.args \o filterArgs(c)]

getCondition(condition) == getConditionLoop(condition, Len(condition.Cases))


---------------------------------------------------------------------------
(* The database: the catalog and the rows of each table.                   *)

\* the SQL NULL, kept apart from every text value
NULL == "<NULL>"

Column(cid, name, dataType, notNull, pk) ==
  [cid |-> cid, name |-> name, dataType |-> dataType, notNull |-> notNull, pk |-> pk]

\* users as the tests create it; logs has no primary key, pairs a composite one
Schema ==
  [users |-> <<Column(0, "id", "INTEGER", 0, 1), Column(1, "name", "TEXT", 1, 0),
               Column(2, "email", "TEXT", 0, 0)>>,
   logs  |-> <<Column(0, "msg", "TEXT", 0, 0)>>,
   pairs |-> <<Column(0, "a", "TEXT", 1, 1), Column(1, "b", "TEXT", 1, 2)>>]

TableNames == DOMAIN Schema

ColumnNames(t) == {Schema[t][i].name : i \in 1..Len(Schema[t])}

\* the columns of the primary key of a table, as PRAGMA table_info numbers them
KeyColumns(t) == {Schema[t][i].name : i \in {j \in 1..Len(Schema[t]) : Schema[t][j].pk > 0}}

SeedTexts == <<"a", "b", "ab">>

SeedUser(i) ==
  [id |-> ToString(i),
   name |-> SeedTexts[((i - 1) % 3) + 1],
   email |-> IF i % 2 = 0 THEN NULL ELSE SeedTexts[(i % 3) + 1]]

InitDB ==
  [users |-> [i \in 1..MaxRows |-> SeedUser(i)],
   logs  |-> <<[msg |-> "a"]>>,
   pairs |-> <<[a |-> "1", b |-> "a"], [a |-> "1", b |-> "b"], [a |-> "2", b |-> "a"]>>]

\* the order of the text values under the comparison operators
ValueOrder ==
  <<"", "0", "1", "2", "3", "4", "5", "6", "7", "8", "9", "A", "_", "a", "ab", "b", "x">>

Rank(v) == CHOOSE i \in 1..Len(ValueOrder) : ValueOrder[i] = v

\* needle is a substring of text
Contains(text, needle) ==
  \/ needle = ""
  \/ text = needle
  \/ text = "ab" /\ needle \in {"a", "b"}

\* LIKE takes the letters of ASCII without their case
Fold(text) == IF text = "A" THEN "a" ELSE text

\* text LIKE '%' || needle || '%': in the needle _ stands for any one
\* character
Like(text, needle) ==
  IF needle = "_" THEN text # "" ELSE Contains(Fold(text), Fold(needle))

\* %q of fmt.Sprintf
Quote(s) == "\"" \o s \o "\""

\* the table an identifier of the SQL text names, quoted or not
ResolveTable(d, tok) ==
  IF \E t \in DOMAIN d : tok \in {t, Quote(t)}
  THEN [found |-> TRUE, name |-> CHOOSE t \in DOMAIN d : tok \in {t, Quote(t)}]
  ELSE [found |-> FALSE, name |-> ""]

IntRange == -3..(DefaultLimit + 1)

\* the integer a decimal token of the SQL text stands for
ParseInt(tok) == CHOOSE n \in IntRange : ToString(n) = tok

---------------------------------------------------------------------------
(* Evaluation of a WHERE expression by SQLite: AND binds tighter than OR,  *)
(* parentheses group, a comparison with NULL is unknown, and only rows on  *)
(* which the expression is true are selected.  "ERR" is a statement that   *)
(* fails to prepare (syntax error, no such column, too few arguments).     *)

IsAnd(tok) == tok \in {"and", "AND"}
IsOr(tok) == tok \in {"or", "OR"}

And3(x, y) ==
  IF "ERR" \in {x, y} THEN "ERR"
  ELSE IF "F" \in {x, y} THEN "F"
  ELSE IF "U" \in {x, y} THEN "U"
  ELSE "T"

Or3(x, y) ==
  IF "ERR" \in {x, y} THEN "ERR"
  ELSE IF "T" \in {x, y} THEN "T"
  ELSE IF "U" \in {x, y} THEN "U"
  ELSE "F"

Bool3(b) == IF b THEN "T" ELSE "F"

\* nesting depth of position p counted from position lo
ParenDepth(toks, lo, p) ==
  Cardinality({i \in lo..(p - 1) : toks[i] = "("})
    - Cardinality({i \in lo..(p - 1) : toks[i] = ")"})

\* positions lo..hi form a balanced stretch of text
Balanced(toks, lo, hi) ==
  /\ ParenDepth(toks, lo, hi + 1) = 0
  /\ \A p \in lo..hi : ParenDepth(toks, lo, p + 1) >= 0

\* the index in args of the placeholder at position p
PlaceholderIndex(toks, p) == Cardinality({i \in 1..p : toks[i] = "?"})

Compare(op, v, a) ==
  IF v = NULL THEN "U"
  ELSE CASE op = "="  -> Bool3(v = a)
         [] op = "!=" -> Bool3(v # a)
         [] op = "<"  -> Bool3(Rank(v) < Rank(a))
         [] op = "<=" -> Bool3(Rank(v) <= Rank(a))
         [] op = ">"  -> Bool3(Rank(v) > Rank(a))
         [] op = ">=" -> Bool3(Rank(v) >= Rank(a))
         [] OTHER -> "ERR"

\* the form of the predicate at positions lo..hi: col op ?,
\* col LIKE '%' || ? || '%', col IS NULL, col IS NOT NULL
PredicateForm(toks, lo, hi) ==
  LET n == hi - lo + 1
  IN IF n = 3 /\ toks[lo + 1] = "IS" /\ toks[hi] = "NULL" THEN "isnull"
     ELSE IF n = 4 /\ toks[lo + 1] = "IS" /\ toks[lo + 2] = "NOT" /\ toks[hi] = "NULL"
          THEN "notnull"
     ELSE IF n = 3 /\ toks[hi] = "?" /\ toks[lo + 1] \in {"=", "!=", "<", "<=", ">", ">="}
          THEN "compare"
     ELSE IF n = 7 /\ SubSeq(toks, lo + 1, hi) = <<"LIKE", "'%'", "||", "?", "||", "'%'">>
          THEN "like"
     ELSE "none"

\* the number of the predicate that starts at position lo, in text order
PredicateIndex(ctx, lo) == Cardinality({i \in 1..lo : ctx.toks[i] \in ctx.cols})

\* one predicate on ctx.row; when ctx.truth is not empty the predicates take
\* their values from it, in text order, and only the boolean structure of
\* the expression is evaluated
EvalPredicate(ctx, lo, hi) ==
  LET toks == ctx.toks
      col == toks[lo]
      form == PredicateForm(toks, lo, hi)
      hole == IF form = "like" THEN lo + 4 ELSE hi
      k == PlaceholderIndex(toks, hole)
  IN IF form = "none" \/ col \notin ctx.cols THEN "ERR"
     ELSE IF ctx.truth # <<>> THEN ctx.truth[PredicateIndex(ctx, lo)]
     ELSE IF form = "isnull" THEN Bool3(ctx.row[col] = NULL)
     ELSE IF form = "notnull" THEN Bool3(ctx.row[col] # NULL)
     ELSE IF k > Len(ctx.args) THEN "ERR"
     ELSE IF form = "compare" THEN Compare(toks[lo + 1], ctx.row[col], ctx.args[k])
     ELSE IF ctx.row[col] = NULL THEN "U"
     ELSE Bool3(Like(ctx.row[col], ctx.args[k]))

RECURSIVE EvalOr(_, _, _)
RECURSIVE EvalAnd(_, _, _)
RECURSIVE EvalOperand(_, _, _)

EvalOperand(ctx, lo, hi) ==
  IF lo > hi THEN "ERR"
  ELSE IF ctx.toks[lo] = "(" /\ ctx.toks[hi] = ")" /\ Balanced(ctx.toks, lo + 1, hi - 1)
       THEN EvalOr(ctx, lo + 1, hi - 1)
  ELSE IF \E p \in lo..hi : ctx.toks[p] \in {"(", ")"} THEN "ERR"
  ELSE EvalPredicate(ctx, lo, hi)

EvalAnd(ctx, lo, hi) ==
  LET P == {p \in lo..hi : IsAnd(ctx.toks[p]) /\ ParenDepth(ctx.toks, lo, p) = 0}
  IN IF lo > hi THEN "ERR"
     ELSE IF P = {} THEN EvalOperand(ctx, lo, hi)
     ELSE LET p == CHOOSE q \in P : \A r \in P : r <= q
          IN And3(EvalAnd(ctx, lo, p - 1), EvalOperand(ctx, p + 1, hi))

EvalOr(ctx, lo, hi) ==
  LET P == {p \in lo..hi : IsOr(ctx.toks[p]) /\ ParenDepth(ctx.toks, lo, p) = 0}
  IN IF lo > hi \/ ~Balanced(ctx.toks, lo, hi) THEN "ERR"
     ELSE IF P = {} THEN EvalAnd(ctx, lo, hi)
     ELSE LET p == CHOOSE q \in P : \A r \in P : r <= q
          IN Or3(EvalOr(ctx, lo, p - 1), EvalAnd(ctx, p + 1, hi))

\* whitespace separates tokens: an empty piece of text is no token
Lex(text) == SelectSeq(text, LAMBDA tok : tok # "")

\* the value of WHERE <frag> on one row of a table with columns cols
EvalWhere(frag, args, row, cols) ==
  LET toks == Lex(frag)
  IN EvalOr([toks |-> toks, args |-> args, row |-> row, cols |-> cols, truth |-> <<>>],
            1, Len(toks))

\* the value of the expression when its predicates have the values truth
EvalStructure(frag, truth, cols) ==
  LET toks == Lex(frag)
  IN EvalOr([toks |-> toks, args |-> <<>>, row |-> <<>>, cols |-> cols, truth |-> truth],
            1, Len(toks))

NullRow(cols) == [c \in cols |-> NULL]

\* the statement prepares: the verdict is the same on every row
WhereValid(frag, args, cols) == EvalWhere(frag, args, NullRow(cols), cols) # "ERR"

---------------------------------------------------------------------------
(* Execution of the statements by the driver.  A statement is the record   *)
(* [text, args, ok, n]: the SQL text, the bound values, whether SQLite ran  *)
(* it without an error, and the count it produced (rows returned, rows     *)
(* affected, or the value of COUNT).  Values bound beyond the placeholders *)
(* of the text are ignored by the driver.                                  *)

Stmt(text, args, ok, n) == [text |-> text, args |-> args, ok |-> ok, n |-> n]

\* a value the driver cannot bind (a list or a mapping)
UNSUPPORTED == "<UNSUPPORTED>"

\* the value database/sql binds for a decoded JSON value
SqlValue(j) ==
  CASE j.k = "str" -> j.s
    [] j.k = "null" -> NULL
    [] j.k = "num" -> ToString(j.n)
    [] j.k = "bool" -> IF j.b THEN "1" ELSE "0"
    [] OTHER -> UNSUPPORTED

Min(a, b) == IF a < b THEN a ELSE b

\* LIMIT limit OFFSET offset: a negative limit is no limit
Page(rows, limit, offset) ==
  LET o == IF offset < 0 THEN 0 ELSE offset
      rest == SubSeq(rows, o + 1, Len(rows))
  IN IF limit < 0 THEN rest ELSE SubSeq(rest, 1, Min(limit, Len(rest)))

\* SELECT * FROM t [WHERE frag] LIMIT n [OFFSET m]
ExecSelect(d, text, args) ==
  LET n == Len(text)
      tbl == ResolveTable(d, text[2])
      filtered == n >= 5 /\ text[3] = "WHERE"
      \* the text ends with OFFSET m
      paged == n >= 6 /\ text[n - 1] = "OFFSET"
      end == IF paged THEN n - 2 ELSE n
      frag == SubSeq(text, 4, end - 2)
      cols == ColumnNames(tbl.name)
      limit == ParseInt(text[end])
      offset == IF paged THEN ParseInt(text[n]) ELSE 0
      hits == SelectSeq(d[tbl.name], LAMBDA row : EvalWhere(frag, args, row, cols) = "T")
  IN IF ~tbl.found THEN [ok |-> FALSE, rows |-> <<>>]
     ELSE IF ~filtered THEN [ok |-> TRUE, rows |-> Page(d[tbl.name], limit, offset)]
     ELSE IF ~WhereValid(frag, args, cols) THEN [ok |-> FALSE, rows |-> <<>>]
     ELSE [ok |-> TRUE, rows |-> Page(hits, limit, offset)]

\* PRAGMA table_info("t"): no row, and no error, for a table that does not exist
ExecPragma(d, text) ==
  LET tbl == ResolveTable(d, text[2])
  IN IF tbl.found THEN [ok |-> TRUE, columns |-> Schema[tbl.name]]
     ELSE [ok |-> TRUE, columns |-> <<>>]

\* the count is the one of the table when the handler was made
ExecCount_AtStart(d, text) ==
  LET tbl == ResolveTable(d, text[2])
  IN IF tbl.found THEN [ok |-> TRUE, count |-> Len(InitDB[tbl.name])]
     ELSE [ok |-> FALSE, count |-> 0]

\* SELECT COUNT(*) FROM "t"
ExecCount(d, text) ==
  LET tbl == ResolveTable(d, text[2])
  IN IF tbl.found THEN [ok |-> TRUE, count |-> Len(d[tbl.name])]
     ELSE [ok |-> FALSE, count |-> 0]

\* the rows are removed and the statement is then reported as failed
ExecDelete_AppliedThenFails(d, text, args) ==
  [ok |-> FALSE, affected |-> 0,
   db |-> [d EXCEPT ![ResolveTable(d, text[2]).name] =
             SelectSeq(@, LAMBDA row : row[text[4]] \notin {args[i] : i \in 1..Len(args)})]]

\* DELETE FROM t WHERE col IN (?,?,...)
ExecDelete(d, text, args) ==
  LET tbl == ResolveTable(d, text[2])
      col == text[4]
      holes == Cardinality({i \in 1..Len(text) : text[i] = "?"})
      ids == {args[i] : i \in 1..Min(holes, Len(args))}
      kept == SelectSeq(d[tbl.name], LAMBDA row : row[col] \notin ids)
  IN IF ~tbl.found \/ col \notin ColumnNames(tbl.name) \/ Len(args) < holes
        \/ UNSUPPORTED \in {args[i] : i \in 1..Len(args)}
     THEN [ok |-> FALSE, db |-> d, affected |-> 0]
     ELSE [ok |-> TRUE, db |-> [d EXCEPT ![tbl.name] = kept],
           affected |-> Len(d[tbl.name]) - Len(kept)]

\* UPDATE t SET c1 = ?,c2 = ? WHERE col = ?
ExecUpdate(d, text, args) ==
  LET n == Len(text)
      tbl == ResolveTable(d, text[2])
      cols == ColumnNames(tbl.name)
      w == n - 3
      set == SubSeq(text, 4, w - 1)
      m == Len(set)
      count == (m + 1) \div 4
      wellFormed ==
        /\ n >= 7 /\ text[3] = "SET" /\ text[w] = "WHERE"
        /\ m >= 3 /\ m % 4 = 3
        /\ \A i \in 1..m : CASE i % 4 = 1 -> set[i] \in cols
                             [] i % 4 = 2 -> set[i] = "="
                             [] i % 4 = 3 -> set[i] = "?"
                             [] OTHER -> set[i] = ","
        /\ text[w + 1] \in cols
        /\ Len(args) >= count + 1
        /\ UNSUPPORTED \notin {args[i] : i \in 1..Len(args)}
      key == text[w + 1]
      target(row) == row[key] = args[count + 1] /\ args[count + 1] # NULL
      assigned(c) == \E i \in 1..count : set[4 * i - 3] = c
      \* the last assignment to a column wins
      newValue(c) == args[CHOOSE i \in 1..count :
                            /\ set[4 * i - 3] = c
                            /\ \A j \in 1..count : set[4 * j - 3] = c => j <= i]
      updated(row) == [c \in DOMAIN row |-> IF assigned(c) THEN newValue(c) ELSE row[c]]
      notNullBroken ==
        \E i \in 1..Len(Schema[tbl.name]) :
          LET c == Schema[tbl.name][i]
          IN c.notNull = 1 /\ assigned(c.name) /\ newValue(c.name) = NULL
      hit == \E i \in 1..Len(d[tbl.name]) : target(d[tbl.name][i])
      keyOf(row) == [c \in KeyColumns(tbl.name) |-> row[c]]
      rows == [i \in 1..Len(d[tbl.name]) |->
                 IF target(d[tbl.name][i]) THEN updated(d[tbl.name][i]) ELSE d[tbl.name][i]]
      changed == Cardinality({i \in 1..Len(d[tbl.name]) : target(d[tbl.name][i])})
      \* two rows with the same primary key after the update
      uniqueBroken ==
        /\ KeyColumns(tbl.name) # {}
        /\ \E i, j \in 1..Len(rows) : i < j /\ keyOf(rows[i]) = keyOf(rows[j])
  IN IF ~tbl.found \/ ~wellFormed THEN [ok |-> FALSE, db |-> d, affected |-> 0]
     ELSE IF hit /\ notNullBroken THEN [ok |-> FALSE, db |-> d, affected |-> 0]
     ELSE IF uniqueBroken THEN [ok |-> FALSE, db |-> d, affected |-> 0]
     ELSE [ok |-> TRUE, db |-> [d EXCEPT ![tbl.name] = rows], affected |-> changed]

---------------------------------------------------------------------------
(* The query functions of queryhandlers.go.  Each returns its results and  *)
(* the statements it handed to the driver, in order.                       *)

SqlCheckTable == "SELECT COUNT(*) FROM sqlite_master WHERE type='table' AND name=?"
SqlListTables == "SELECT name FROM sqlite_master WHERE type='table';"

checkTableExists(d, tableName) ==
  LET exists == Cardinality({t \in DOMAIN d : t = tableName})
  IN [exists |-> exists > 0,
      log |-> <<Stmt(<<SqlCheckTable>>, <<tableName>>, TRUE, exists)>>]

\* the query with a condition takes the offset as well
filteredQuery_WithOffset(tableName, conditionQuery, limit, offset) ==
  <<"SELECT * FROM", tableName, "WHERE">> \o conditionQuery
    \o <<"LIMIT", ToString(limit), "OFFSET", ToString(offset)>>

\* the text of the query when a condition with cases is given
filteredQuery(tableName, conditionQuery, limit, offset) ==
  <<"SELECT * FROM", tableName, "WHERE">> \o conditionQuery \o <<"LIMIT", ToString(limit)>>

\* the query without a condition has no OFFSET
plainQuery_NoOffset(tableName, limit, offset) ==
  <<"SELECT * FROM", Quote(tableName), "LIMIT", ToString(limit)>>

\* the text of the query without a condition
plainQuery(tableName, limit, offset) ==
  <<"SELECT * FROM", Quote(tableName), "LIMIT", ToString(limit), "OFFSET", ToString(offset)>>

\* the result of the existence check is not looked at
tableMissing_Never(chk) == FALSE

\* if !exists, after checkTableExists
tableMissing(chk) == ~chk.exists

\* the length of the cases is not looked at
isFiltered_AnyCondition(hasCond, condition) == hasCond

\* the query carries a WHERE clause; hasCond is condition != nil
isFiltered(hasCond, condition) == hasCond /\ Len(condition.Cases) > 0

queryTable(d, tableName, hasCond, condition, limit, offset) ==
  LET probeText == <<"SELECT * FROM", Quote(tableName), "LIMIT", "0">>
      filtered == isFiltered(hasCond, condition)
      \* the statement built, run and logged after the two statements in before
      run(before, comp) ==
        LET query == IF filtered THEN filteredQuery(tableName, comp.clause, limit, offset)
                     ELSE plainQuery(tableName, limit, offset)
            args == IF filtered THEN comp.args ELSE <<>>
            result(res) == [err |-> ~res.ok, rows |-> res.rows,
                            log |-> before \o <<Stmt(query, args, res.ok, Len(res.rows))>>]
        IN result(ExecSelect(d, query, args))
      columns(chk, probe) ==
        LET probeLog == <<Stmt(probeText, <<>>, probe.ok, 0)>>
        IN IF ~probe.ok THEN [err |-> TRUE, rows |-> <<>>, log |-> chk.log \o probeLog]
           ELSE run(chk.log \o probeLog, getCondition(condition))
      checked(chk) ==
        IF tableMissing(chk) THEN [err |-> TRUE, rows |-> <<>>, log |-> chk.log]
        ELSE columns(chk, ExecSelect(d, probeText, <<>>))
  IN checked(checkTableExists(d, tableName))

getTableInfo(d, tableName) ==
  LET pragmaText == <<"PRAGMA table_info(", Quote(tableName), ")">>
      countText == <<"SELECT COUNT(*) FROM", Quote(tableName)>>
      counted(chk, pragma, count) ==
        LET stmts == chk.log \o <<Stmt(pragmaText, <<>>, pragma.ok, Len(pragma.columns)),
                                   Stmt(countText, <<>>, count.ok, count.count)>>
        IN IF ~count.ok THEN [err |-> TRUE, columns |-> <<>>, count |-> 0, log |-> stmts]
           ELSE [err |-> FALSE, columns |-> pragma.columns, count |-> count.count,
                 log |-> stmts]
      checked(chk) ==
        IF tableMissing(chk)
        THEN [err |-> TRUE, columns |-> <<>>, count |-> 0, log |-> chk.log]
        ELSE counted(chk, ExecPragma(d, pragmaText), ExecCount(d, countText))
  IN checked(checkTableExists(d, tableName))

\* the name of the first column whose pk is 1, "" when there is none
findPrimaryKey(columns) ==
  IF \E i \in 1..Len(columns) : columns[i].pk = 1
  THEN columns[CHOOSE i \in 1..Len(columns) :
                 columns[i].pk = 1 /\ \A j \in 1..(i - 1) : columns[j].pk # 1].name
  ELSE ""

RECURSIVE JoinComma(_)
\* strings.Join(parts, ",") of pieces of text
JoinComma(parts) ==
  IF parts = <<>> THEN <<>>
  ELSE IF Len(parts) = 1 THEN parts[1]
  ELSE parts[1] \o <<",">> \o JoinComma(Tail(parts))

\* DELETE FROM t WHERE pk IN (?,?,?)
deleteQuery(tableName, primaryKey, ids) ==
  <<"DELETE FROM", tableName, "WHERE", primaryKey, "IN", "(">>
    \o JoinComma([i \in 1..Len(ids) |-> <<"?">>]) \o <<")">>

\* an empty list of ids is not told apart
noIds_Never(ids) == FALSE

\* len(ids) == 0
noIds(ids) == Len(ids) = 0

batchDelete(d, tableName, ids) ==
  LET withInfo(info) ==
        LET primaryKey == findPrimaryKey(info.columns)
            query == deleteQuery(tableName, primaryKey, ids)
            result(res) == [err |-> ~res.ok, rowsAffected |-> res.affected,
                            log |-> info.log \o <<Stmt(query, ids, res.ok, res.affected)>>,
                            db |-> res.db]
        IN IF info.err \/ primaryKey = ""
           THEN [err |-> TRUE, rowsAffected |-> 0, log |-> info.log, db |-> d]
           ELSE result(ExecDelete(d, query, ids))
  IN IF noIds(ids) THEN [err |-> FALSE, rowsAffected |-> 0, log |-> <<>>, db |-> d]
     ELSE withInfo(getTableInfo(d, tableName))

\* the row is not looked at for the primary key
hasPrimaryKey_Always(row, primaryKey) == TRUE

\* row is the Go map of the request; order is the order in which range
\* visits the keys of nonPKColumns
\* _, ok := row[primaryKey]
hasPrimaryKey(row, primaryKey) == primaryKey \in DOMAIN row

\* an UPDATE that changes no row is an error
editFailed_WhenNoRow(res) == ~res.ok \/ res.affected = 0

\* _, err = db.Exec(query, values...): the result is not looked at
editFailed(res) == ~res.ok

editRow(d, tableName, row, order) ==
  LET withInfo(info) ==
        LET primaryKey == findPrimaryKey(info.columns)
            placeholders == [i \in 1..Len(order) |-> <<order[i], "=", "?">>]
            values == [i \in 1..Len(order) |-> SqlValue(row[order[i]])]
                        \o <<SqlValue(Get(row, primaryKey))>>
            query == <<"UPDATE", tableName, "SET">> \o JoinComma(placeholders)
                       \o <<"WHERE", primaryKey, "=", "?">>
            result(res) == [err |-> editFailed(res),
                            log |-> info.log \o <<Stmt(query, values, res.ok, res.affected)>>,
                            db |-> res.db]
        IN IF info.err \/ primaryKey = "" THEN [err |-> TRUE, log |-> info.log, db |-> d]
           ELSE IF ~hasPrimaryKey(row, primaryKey)
                THEN [err |-> TRUE, log |-> info.log, db |-> d]
           ELSE result(ExecUpdate(d, query, values))
  IN withInfo(getTableInfo(d, tableName))

---------------------------------------------------------------------------
(* The command handlers.  Each returns the response written, the           *)
(* statements handed to the driver and the database afterwards.            *)

Response(status, body) == [status |-> status, body |-> body]

APIError(statusCode, message) == [statusCode |-> statusCode, message |-> message]

ErrMissingTableName == "missing table name"
ErrMissingRow == "missing row"
ErrInvalidOrMissingIds == "invalid or missing ids"
ErrInvalidInput == "invalid input"

apiErrUnauthorized == APIError(StatusUnauthorized, "Invalid credentials")
apiErrBadRequest(details) == APIError(StatusBadRequest, "Bad request: " \o details)

\* the message names what went wrong
apiErrSomethingWentWrong_Telling == APIError(StatusInternalServerError, "no such table")

apiErrSomethingWentWrong == APIError(StatusInternalServerError, "Something went wrong")

writeError(err) == Response(err.statusCode, err)

\* the handler goroutine panics: net/http recovers, nothing is written
Panicked == Response(0, [panic |-> TRUE])

Outcome(response, stmts, d) == [resp |-> response, log |-> stmts, db |-> d]

\* strconv.Atoi on the decimal strings of the model
Atoi(str) ==
  IF \E n \in IntRange : ToString(n) = str
  THEN [n |-> CHOOSE n \in IntRange : ToString(n) = str, ok |-> TRUE]
  ELSE [n |-> 0, ok |-> FALSE]

\* text is not converted
convertNumber_NumbersOnly(val) ==
  CASE val.k = "num" -> [n |-> val.n, ok |-> TRUE]
    [] OTHER -> [n |-> 0, ok |-> FALSE]

convertNumber(val) ==
  CASE val.k = "num" -> [n |-> val.n, ok |-> TRUE]
    [] val.k = "str" -> Atoi(val.s)
    [] OTHER -> [n |-> 0, ok |-> FALSE]

\* ids that are absent are an empty list
convertToStrSlice_NilIsEmpty(val) ==
  IF val.k = "null" THEN [ok |-> TRUE, ids |-> <<>>]
  ELSE IF val.k # "list" THEN [ok |-> FALSE, ids |-> <<>>]
  ELSE IF \E i \in 1..Len(val.l) : val.l[i].k # "str" THEN [ok |-> FALSE, ids |-> <<>>]
  ELSE [ok |-> TRUE, ids |-> [i \in 1..Len(val.l) |-> val.l[i].s]]

convertToStrSlice(val) ==
  IF val.k # "list" THEN [ok |-> FALSE, ids |-> <<>>]
  ELSE IF \E i \in 1..Len(val.l) : val.l[i].k # "str" THEN [ok |-> FALSE, ids |-> <<>>]
  ELSE [ok |-> TRUE, ids |-> [i \in 1..Len(val.l) |-> val.l[i].s]]

\* limit or offset: the default unless the parameter converts to a number
numberParam(params, name, default) ==
  LET v == Get(params, name)
      c == convertNumber(v)
  IN IF v.k # "null" /\ c.ok THEN c.n ELSE default

ping(d) == Outcome(Response(StatusOK, [status |-> "ok"]), <<>>, d)

TableOrder == <<"users", "logs", "pairs">>

listTables(d) ==
  Outcome(Response(StatusOK, [tables |-> TableOrder]),
          <<Stmt(<<SqlListTables>>, <<>>, TRUE, Len(TableOrder))>>, d)

\* the answer of getTable to a condition parameter that toCondition rejects
invalidCondition(d) == Outcome(writeError(apiErrBadRequest("Invalid condition")), <<>>, d)

getTable(d, params) ==
  LET tableV == Get(params, "tableName")
      table == tableV.s
      limit == numberParam(params, "limit", DefaultLimit)
      offset == numberParam(params, "offset", DefaultOffset)
      hasCond == "condition" \in DOMAIN params
      withInfo(data, info) ==
        IF info.err
        THEN Outcome(writeError(apiErrSomethingWentWrong), data.log \o info.log, d)
        ELSE Outcome(Response(StatusOK,
                       [rows |-> data.rows,
                        tableInfo |-> [columns |-> info.columns, count |-> info.count]]),
                     data.log \o info.log, d)
      withRows(data) ==
        IF data.err THEN Outcome(writeError(apiErrSomethingWentWrong), data.log, d)
        ELSE IF Get(params, "includeInfo") # JBool(TRUE)
             THEN Outcome(Response(StatusOK, [rows |-> data.rows]), data.log, d)
        ELSE withInfo(data, getTableInfo(d, table))
      withCondition(conv) ==
        IF conv.st = "panic" THEN Outcome(Panicked, <<>>, d)
        ELSE IF conv.st = "fail" THEN invalidCondition(d)
        ELSE withRows(queryTable(d, table, hasCond, conv.cond, limit, offset))
  IN IF tableV.k # "str" THEN Outcome(writeError(apiErrBadRequest(ErrMissingTableName)), <<>>, d)
     ELSE IF hasCond THEN withCondition(toCondition(params["condition"]))
     ELSE withCondition([st |-> "ok", cond |-> Condition(<<>>, "")])

\* a table that does not exist is answered as a failure of the server
deleteOfMissingTable_Internal == writeError(apiErrSomethingWentWrong)

\* if !exists: writeError(w, apiErrBadRequest(ErrInvalidInput.Error()))
deleteOfMissingTable == writeError(apiErrBadRequest(ErrInvalidInput))

deleteRows(d, params) ==
  LET tableV == Get(params, "tableName")
      table == tableV.s
      deleted(chk, del) ==
        IF del.err
        THEN Outcome(writeError(apiErrSomethingWentWrong), chk.log \o del.log, del.db)
        ELSE Outcome(Response(StatusOK, [rowsAffected |-> ToString(del.rowsAffected)]),
                     chk.log \o del.log, del.db)
      checked(ids, chk) ==
        IF ~chk.exists
        THEN Outcome(deleteOfMissingTable, chk.log, d)
        ELSE deleted(chk, batchDelete(d, table, ids))
      withIds(conv) ==
        IF ~conv.ok
        THEN Outcome(writeError(apiErrBadRequest(ErrInvalidOrMissingIds)), <<>>, d)
        ELSE checked(conv.ids, checkTableExists(d, table))
  IN IF tableV.k # "str" THEN Outcome(writeError(apiErrBadRequest(ErrMissingTableName)), <<>>, d)
     ELSE withIds(convertToStrSlice(Get(params, "ids")))

updateRow(d, params, order) ==
  LET tableV == Get(params, "tableName")
      table == tableV.s
      rowV == Get(params, "row")
      edited(edit) ==
        IF edit.err THEN Outcome(writeError(apiErrSomethingWentWrong), edit.log, edit.db)
        ELSE Outcome(Response(StatusOK, [status |-> "ok"]), edit.log, edit.db)
  IN IF tableV.k # "str" THEN Outcome(writeError(apiErrBadRequest(ErrMissingTableName)), <<>>, d)
     ELSE IF rowV.k # "map" THEN Outcome(writeError(apiErrBadRequest(ErrMissingRow)), <<>>, d)
     ELSE edited(editRow(d, table, rowV.m, order))

Ping == "Ping"
ListTables == "ListTables"
GetTable == "GetTable"
DeleteRows == "DeleteRows"
UpdateRow == "UpdateRow"

\* the check is made as soon as one of the two is configured
authEnabled_EitherSet(cfg) == cfg.username # "" \/ cfg.password # ""

\* if h.username != "" && h.password != ""
authEnabled(cfg) == cfg.username # "" /\ cfg.password # ""

\* every header is let through
authorized_Always(cfg, authHeader) == TRUE

\* the identity check of HandlePost
authorized(cfg, authHeader) ==
  ~authEnabled(cfg) \/ cfg.username \o ":" \o cfg.password = authHeader

\* r is the HTTP request: its Authorization header, whether its body
\* decodes into a CommandRequest, and the command and params decoded
HandlePostResult(cfg, d, r, order) ==
  IF ~authorized(cfg, r.auth) THEN Outcome(writeError(apiErrUnauthorized), <<>>, d)
  ELSE IF ~r.valid
       THEN Outcome(Response(StatusBadRequest, [error |-> "Invalid Request Body"]), <<>>, d)
  ELSE CASE r.command = Ping -> ping(d)
         [] r.command = ListTables -> listTables(d)
         [] r.command = GetTable -> getTable(d, r.params)
         [] r.command = DeleteRows -> deleteRows(d, r.params)
         [] r.command = UpdateRow -> updateRow(d, r.params, order)
         [] OTHER -> Outcome(Response(StatusBadRequest, [text |-> "Invalid command"]), <<>>, d)

---------------------------------------------------------------------------
(* The requests the model sends.                                           *)

NoParams == [x \in {} |-> JNull]

RawFilter(column, operator, value) ==
  JMap([column |-> JStr(column), operator |-> JStr(operator), value |-> JStr(value)])

\* a null check sent without a value
RawNullCheck(column, operator) ==
  JMap([column |-> JStr(column), operator |-> JStr(operator)])

RawCondition(cases, op) == JMap([cases |-> JList(cases), logicalOperator |-> JStr(op)])

\* the filters of the enumerated condition trees
TreeFilters ==
  {RawFilter("name", "eq", "a"), RawFilter("email", "like", "b"),
   RawNullCheck("email", "null")}

RECURSIVE Forests(_)
\* the sequences of cases that hold n cases in all, those of nested
\* conditions counted; a nested condition may hold no case
Forests(n) ==
  IF n = 0 THEN {<<>>}
  ELSE {<<f>> \o rest : f \in TreeFilters, rest \in Forests(n - 1)}
       \cup UNION {{<<RawCondition(inner, op)>> \o rest :
                       inner \in Forests(m),
                       op \in {LogicalOperatorAnd, LogicalOperatorOr},
                       rest \in Forests(n - 1 - m)} : m \in 0..(n - 1)}

\* the condition trees of at most size cases in all
RawConds(size) ==
  UNION {{RawCondition(cs, op) :
            cs \in Forests(n), op \in {LogicalOperatorAnd, LogicalOperatorOr}} :
           n \in 0..size}

\* trees sent to the handler as well: two cases, A AND (B OR C), deeper nestings
NestedConds ==
  LET A == RawFilter("name", "eq", "a")
      B == RawFilter("email", "like", "b")
      C == RawFilter("name", "neq", "ab")
      N == RawNullCheck("email", "notnull")
  IN {RawCondition(<<A, B>>, "and"), RawCondition(<<N, A>>, "or"),
      RawCondition(<<A, RawCondition(<<B, C>>, "or")>>, "and"),
      RawCondition(<<RawCondition(<<A, B>>, "or"), C>>, "and"),
      RawCondition(<<N, RawCondition(<<B, C>>, "and")>>, "or"),
      RawCondition(<<RawCondition(<<A, N>>, "or"), RawCondition(<<B, C>>, "or")>>, "and"),
      RawCondition(<<A, RawCondition(<<N, RawCondition(<<B, C>>, "or")>>, "and")>>, "or"),
      RawCondition(<<RawCondition(<<RawCondition(<<A, B>>, "and"), N>>, "or"), C>>, "and")}

Operators ==
  {OperatorEquals, OperatorLike, OperatorNotEquals, OperatorLessThan,
   OperatorLessThanOrEquals, OperatorGreaterThan, OperatorGreaterThanOrEquals,
   OperatorIsNull, OperatorIsNotNull}

\* one filter, for every operator token and some that are not operators
OperatorConds ==
  {RawCondition(<<RawFilter(c, o, "a")>>, LogicalOperatorAnd) :
     c \in {"email", "nosuch"}, o \in Operators \cup {"bogus", "EQ"}}
  \cup {RawCondition(<<JMap([column |-> JStr("email"), value |-> JStr("a")])>>,
                     LogicalOperatorAnd)}

\* one filter on a column of table users, for every operator
FilterConds ==
  {RawCondition(<<RawFilter(c, o, v)>>, LogicalOperatorAnd) :
     c \in {"id", "email"}, o \in Operators, v \in {"a", "2", "_", "A"}}

\* conditions that are malformed or carry text that is not of the grammar
OddConds ==
  LET A == RawFilter("name", "eq", "a")
      B == RawFilter("email", "like", "b")
      N == RawNullCheck("email", "null")
      X == RawFilter("name", "bogus", "a")
  IN {JNull, JStr("x"), JList(<<A>>), JMap(NoParams),
      JMap([cases |-> JStr("x")]),
      JMap([cases |-> JList(<<JStr("x")>>), logicalOperator |-> JStr("and")]),
      JMap([cases |-> JList(<<A, JNum(1)>>), logicalOperator |-> JStr("and")]),
      JMap([cases |-> JList(<<JMap([column |-> JNum(1), operator |-> JStr("eq"),
                                    value |-> JStr("a")])>>)]),
      JMap([logicalOperator |-> JStr("and")]),
      JMap([cases |-> JList(<<A, B>>)]),
      JMap([cases |-> JList(<<A, X>>)]),
      JMap([cases |-> JList(<<A>>), logicalOperator |-> JNum(1)]),
      RawCondition(<<A, JMap([cases |-> JList(<<B>>), logicalOperator |-> JBool(TRUE)])>>,
                   "and"),
      RawCondition(<<A, B>>, "xor"), RawCondition(<<A, B>>, "AND"),
      RawCondition(<<A, X>>, "and"), RawCondition(<<X, A>>, "or"),
      RawCondition(<<N, X>>, ""),
      RawCondition(<<A, RawCondition(<<B, N>>, "xor")>>, "or"),
      RawCondition(<<A, RawCondition(<<X>>, "or")>>, "and"),
      RawCondition(<<JMap([cases |-> JList(<<>>), logicalOperator |-> JNum(1)]),
                     JStr("x")>>, "and")}

\* the conditions compiled on their own
CompilerConds == RawConds(MaxSize) \cup NestedConds \cup OperatorConds \cup OddConds

\* the conditions sent with GetTable
HandlerConds == RawConds(MaxSize - 2) \cup NestedConds \cup OperatorConds \cup OddConds

TableParams ==
  {[tableName |-> JStr(t)] : t \in {"users", "logs", "pairs", "nosuch"}}
  \cup {NoParams, [tableName |-> JNum(1)]}

LimitParams == {NoParams, [limit |-> JNum(0)], [limit |-> JNum(1)], [limit |-> JNum(2)]}
OffsetParams == {NoParams, [offset |-> JNum(1)], [offset |-> JNum(2)]}
InfoParams == {NoParams, [includeInfo |-> JBool(TRUE)]}

\* values of limit and offset that are not JSON numbers
LooseNumbers ==
  {JStr("2"), JStr("x"), JBool(TRUE), JList(<<JNum(1)>>), JMap([n |-> JNum(1)]), JNull}

GetTableParams ==
  {t @@ l @@ o @@ i : t \in TableParams, l \in LimitParams, o \in OffsetParams,
                      i \in InfoParams}
  \cup {[tableName |-> JStr("users")] @@ l @@ o :
          l \in {NoParams} \cup {[limit |-> v] : v \in LooseNumbers},
          o \in {NoParams} \cup {[offset |-> v] : v \in LooseNumbers}}
  \cup {[tableName |-> JStr("users"), condition |-> c] : c \in HandlerConds}
  \cup {[tableName |-> JStr("users"), condition |-> c] @@ l @@ o :
          c \in OperatorConds \cup OddConds,
          l \in {NoParams, [limit |-> JNum(1)]}, o \in OffsetParams}
  \cup {[tableName |-> JStr(t), condition |-> c] :
          t \in {"logs", "nosuch"}, c \in OperatorConds \cup OddConds}
  \cup {[tableName |-> JStr("users"), condition |-> c] @@ l :
          c \in FilterConds, l \in {NoParams, [limit |-> JNum(1)]}}
  \cup {[tableName |-> JStr("users"), limit |-> l] : l \in {JNum(-1), JStr("-1")}}

IdsParams ==
  {NoParams, [ids |-> JStr("1")], [ids |-> JList(<<JNum(1)>>)], [ids |-> JList(<<>>)],
   [ids |-> JList(<<JStr("1")>>)], [ids |-> JList(<<JStr("2"), JStr("9")>>)],
   [ids |-> JList(<<JStr("1"), JStr("2")>>)]}

DeleteRowsParams == {t @@ i : t \in TableParams, i \in IdsParams}

UserRows ==
  {[id |-> JStr("1"), name |-> JStr("b")],
   [id |-> JStr("1"), email |-> JNull],
   [id |-> JStr("1"), name |-> JStr("a"), email |-> JStr("x")],
   [id |-> JStr("1")],
   [id |-> JStr("1"), name |-> JNull],
   [id |-> JStr("1"), nosuch |-> JStr("a")],
   [id |-> JStr("1"), email |-> JList(<<>>)],
   [id |-> JStr("9"), name |-> JStr("b")],
   [id |-> JStr("9"), name |-> JNull],
   [id |-> JNull, name |-> JStr("b")],
   [name |-> JStr("b")],
   [name |-> JStr("b"), email |-> JStr("x")],
   NoParams}

UpdateRowParams ==
  {[tableName |-> JStr("users"), row |-> JMap(r)] : r \in UserRows}
  \cup {t @@ r : t \in TableParams,
                 r \in {NoParams, [row |-> JStr("x")],
                        [row |-> JMap([id |-> JStr("1"), name |-> JStr("b")])]}}
  \cup {[tableName |-> JStr("pairs"), row |-> JMap([a |-> JStr("1"), b |-> JStr("x")])],
        [tableName |-> JStr("pairs"), row |-> JMap([a |-> JStr("2"), b |-> JStr("x")])],
        [tableName |-> JStr("pairs"), row |-> JMap([b |-> JStr("x")])],
        [tableName |-> JStr("logs"), row |-> JMap([msg |-> JStr("b")])]}

Request(auth, valid, command, params) ==
  [auth |-> auth, valid |-> valid, command |-> command, params |-> params]

GoodAuth == "user:password"

Requests ==
  {Request(GoodAuth, TRUE, GetTable, p) : p \in GetTableParams}
  \cup {Request(GoodAuth, TRUE, DeleteRows, p) : p \in DeleteRowsParams}
  \cup {Request(GoodAuth, TRUE, UpdateRow, p) : p \in UpdateRowParams}
  \cup {Request(a, v, c, [tableName |-> JStr("users"), ids |-> JList(<<JStr("1")>>),
                          row |-> JMap([id |-> JStr("2"), name |-> JStr("a")])]) :
          a \in {GoodAuth, "", "user:", "user:wrong"}, v \in BOOLEAN,
          c \in {Ping, ListTables, GetTable, DeleteRows, UpdateRow, "DropTable", ""}}

Configs ==
  {[username |-> "user", password |-> "password"],
   [username |-> "user", password |-> ""],
   [username |-> "", password |-> ""]}

RECURSIVE Orders(_)
\* the orders in which range can visit a set of keys
Orders(keys) ==
  IF keys = {} THEN {<<>>}
  ELSE UNION {{<<k>> \o o : o \in Orders(keys \ {k})} : k \in keys}

\* the keys of nonPKColumns: every key of row except the primary key
nonPKColumns(d, r) ==
  LET tableV == Get(r.params, "tableName")
      rowV == Get(r.params, "row")
  IN IF r.valid /\ r.command = UpdateRow /\ tableV.k = "str" /\ rowV.k = "map"
        /\ tableV.s \in DOMAIN d
     THEN DOMAIN rowV.m \ {findPrimaryKey(Schema[tableV.s])}
     ELSE {}

---------------------------------------------------------------------------
(* The server: one request is handled at a time; Return ends the request   *)
(* and discards its request-scoped values.                                 *)

None == [k |-> "none"]

Init ==
  /\ config \in Configs
  /\ db = InitDB
  /\ pc = "idle"
  /\ req = None
  /\ resp = None
  /\ log = <<>>
  /\ rawCond = None
  /\ compiled = None
  /\ deleter = None
  /\ reader = None

HandlePost(r, order) ==
  /\ pc = "idle"
  /\ \E out \in {HandlePostResult(config, db, r, order)} :
       /\ db' = out.db
       /\ resp' = out.resp
       /\ log' = out.log
  /\ req' = r
  /\ pc' = "done"
  /\ UNCHANGED <<config, rawCond, compiled, deleter, reader>>

Return ==
  /\ pc = "done"
  /\ pc' = "idle"
  /\ req' = None
  /\ resp' = None
  /\ log' = <<>>
  /\ UNCHANGED <<config, db, rawCond, compiled, deleter, reader>>

Next ==
  \/ \E r \in Requests : \E order \in Orders(nonPKColumns(db, r)) : HandlePost(r, order)
  \/ Return

Spec == Init /\ [][Next]_vars

---------------------------------------------------------------------------
(* The condition compiler on its own: a condition parameter is converted   *)
(* by toCondition and, when that succeeds, compiled by getCondition.       *)

Compiled(st, cond, clause, args) ==
  [st |-> st, cond |-> cond, clause |-> clause, args |-> args]

InitCompile ==
  /\ config = [username |-> "", password |-> ""]
  /\ db = InitDB
  /\ pc = "idle"
  /\ req = None
  /\ resp = None
  /\ log = <<>>
  /\ rawCond \in CompilerConds
  /\ compiled = None
  /\ deleter = None
  /\ reader = None

Compile ==
  /\ pc = "idle"
  /\ LET conv == toCondition(rawCond)
         comp == getCondition(conv.cond)
     IN compiled' = IF conv.st = "ok"
                    THEN Compiled("ok", conv.cond, comp.clause, comp.args)
                    ELSE Compiled(conv.st, conv.cond, <<>>, <<>>)
  /\ pc' = "done"
  /\ UNCHANGED <<config, db, req, resp, log, rawCond, deleter, reader>>

NextCompile == Compile

SpecCompile == InitCompile /\ [][NextCompile]_vars

---------------------------------------------------------------------------
(* Two requests in progress on the one database handle: a DeleteRows and   *)
(* a GetTable without a condition, each in its own goroutine.  A step is   *)
(* one statement handed to the driver; SQLite runs a statement as a whole. *)

\* every id has a statement of its own
deleteStatements_OnePerId(ids) == [i \in 1..Len(ids) |-> <<ids[i]>>]

\* the lists of ids of the DELETE statements batchDelete runs: one statement
\* with all the ids
deleteStatements(ids) == <<ids>>

Deleters ==
  {[at |-> "start", table |-> t, ids |-> ids, primaryKey |-> "", todo |-> <<>>,
    rowsAffected |-> 0] :
     t \in {"users", "pairs", "nosuch"},
     ids \in {<<"1">>, <<"1", "2">>, <<"2", "9">>, <<"1", "2", "3">>}}

Readers ==
  {[at |-> "start", table |-> t, limit |-> l, offset |-> o, includeInfo |-> i,
    rows |-> <<>>, count |-> 0] :
     t \in {"users", "pairs", "nosuch"}, l \in {DefaultLimit, 1, 2}, o \in {DefaultOffset, 1},
     i \in BOOLEAN}

InitConcurrent ==
  /\ config = [username |-> "", password |-> ""]
  /\ db = InitDB
  /\ pc = "idle"
  /\ req = None
  /\ resp = None
  /\ log = <<>>
  /\ rawCond = None
  /\ compiled = None
  /\ deleter \in Deleters
  /\ reader \in Readers

\* deleteRows: checkTableExists
DeleteCheck ==
  /\ deleter.at = "start"
  /\ deleter' = [deleter EXCEPT
                   !.at = IF checkTableExists(db, deleter.table).exists
                          THEN "checked" ELSE "failed"]
  /\ UNCHANGED <<config, db, pc, req, resp, log, rawCond, compiled, reader>>

\* batchDelete: getTableInfo and the search for the primary key
DeleteInfo ==
  /\ deleter.at = "checked"
  /\ \E info \in {getTableInfo(db, deleter.table)} :
       \E primaryKey \in {findPrimaryKey(info.columns)} :
         deleter' = IF info.err \/ primaryKey = ""
                    THEN [deleter EXCEPT !.at = "failed"]
                    ELSE [deleter EXCEPT !.at = "keyed", !.primaryKey = primaryKey,
                                         !.todo = deleteStatements(deleter.ids)]
  /\ UNCHANGED <<config, db, pc, req, resp, log, rawCond, compiled, reader>>

\* batchDelete: db.Exec of the DELETE
DeleteExec ==
  /\ deleter.at = "keyed"
  /\ \E res \in {ExecDelete(db, deleteQuery(deleter.table, deleter.primaryKey,
                                             Head(deleter.todo)),
                             Head(deleter.todo))} :
       /\ db' = res.db
       /\ deleter' = [deleter EXCEPT
                        !.at = IF ~res.ok THEN "failed"
                               ELSE IF Tail(deleter.todo) = <<>> THEN "done"
                               ELSE "keyed",
                        !.todo = Tail(deleter.todo),
                        !.rowsAffected = deleter.rowsAffected + res.affected]
  /\ UNCHANGED <<config, pc, req, resp, log, rawCond, compiled, reader>>

\* queryTable: checkTableExists
ReadCheck ==
  /\ reader.at = "start"
  /\ reader' = [reader EXCEPT
                  !.at = IF checkTableExists(db, reader.table).exists
                         THEN "checked" ELSE "failed"]
  /\ UNCHANGED <<config, db, pc, req, resp, log, rawCond, compiled, deleter>>

\* queryTable: the query for the column names
ReadProbe ==
  /\ reader.at = "checked"
  /\ reader' = [reader EXCEPT
                  !.at = IF ExecSelect(db, <<"SELECT * FROM", Quote(reader.table),
                                             "LIMIT", "0">>, <<>>).ok
                         THEN "probed" ELSE "failed"]
  /\ UNCHANGED <<config, db, pc, req, resp, log, rawCond, compiled, deleter>>

\* queryTable: db.Query of the SELECT and the scan of its rows
ReadSelect ==
  /\ reader.at = "probed"
  /\ \E res \in {ExecSelect(db, plainQuery(reader.table, reader.limit, reader.offset),
                             <<>>)} :
       reader' = [reader EXCEPT !.at = IF ~res.ok THEN "failed"
                                      ELSE IF reader.includeInfo THEN "rows"
                                      ELSE "done",
                                !.rows = res.rows]
  /\ UNCHANGED <<config, db, pc, req, resp, log, rawCond, compiled, deleter>>

\* getTable with includeInfo, getTableInfo: checkTableExists and the PRAGMA
ReadInfo ==
  /\ reader.at = "rows"
  /\ reader' = [reader EXCEPT
                  !.at = IF /\ checkTableExists(db, reader.table).exists
                            /\ ExecPragma(db, <<"PRAGMA table_info(", Quote(reader.table),
                                                 ")">>).ok
                         THEN "columns" ELSE "failed"]
  /\ UNCHANGED <<config, db, pc, req, resp, log, rawCond, compiled, deleter>>

\* getTableInfo: the query for the number of rows
ReadCount ==
  /\ reader.at = "columns"
  /\ \E res \in {ExecCount(db, <<"SELECT COUNT(*) FROM", Quote(reader.table)>>)} :
       reader' = [reader EXCEPT !.at = IF res.ok THEN "done" ELSE "failed",
                                !.count = res.count]
  /\ UNCHANGED <<config, db, pc, req, resp, log, rawCond, compiled, deleter>>

NextConcurrent ==
  \/ DeleteCheck
  \/ DeleteInfo
  \/ DeleteExec
  \/ ReadCheck
  \/ ReadProbe
  \/ ReadSelect
  \/ ReadInfo
  \/ ReadCount

SpecConcurrent == InitConcurrent /\ [][NextConcurrent]_vars

---------------------------------------------------------------------------
(* Vocabulary of the properties.                                           *)

NullChecks == {OperatorIsNull, OperatorIsNotNull}

Count(seq, tok) == Cardinality({i \in 1..Len(seq) : seq[i] = tok})

RECURSIVE FiltersOf(_)
RECURSIVE FiltersOfCases(_)

\* the filters of a condition tree, depth first and left to right
FiltersOf(c) == IF c.type = "filter" THEN <<c>> ELSE FiltersOfCases(c.Cases)

FiltersOfCases(cases) ==
  IF cases = <<>> THEN <<>> ELSE FiltersOf(Head(cases)) \o FiltersOfCases(Tail(cases))

RECURSIVE NodesOf(_)
RECURSIVE NodesOfCases(_)

\* the Condition nodes of a condition tree, the root first
NodesOf(c) == IF c.type = "filter" THEN <<>> ELSE <<c>> \o NodesOfCases(c.Cases)

NodesOfCases(cases) ==
  IF cases = <<>> THEN <<>> ELSE NodesOf(Head(cases)) \o NodesOfCases(Tail(cases))

Range(seq) == {seq[i] : i \in 1..Len(seq)}

\* the values of the filters that carry a value, depth first and left to right
ValueBearing(cond) ==
  LET fs == SelectSeq(FiltersOf(cond), LAMBDA f : f.Operator \notin NullChecks)
  IN [i \in 1..Len(fs) |-> fs[i].Value]

KnownOperators(cond) == \A f \in Range(FiltersOf(cond)) : f.Operator \in Operators

IsAndOr(op) == IsAnd(op) \/ IsOr(op)

\* every joining token the compiler writes for the tree is AND or OR
JoinersAreAndOr(cond) ==
  \A node \in Range(NodesOf(cond)) : Len(node.Cases) >= 2 => IsAndOr(node.LogicalOperator)

\* a tree of the grammar: operators of the nine, AND or OR at every node, no empty node
WellFormedTree(cond) ==
  /\ KnownOperators(cond)
  /\ \A node \in Range(NodesOf(cond)) : Len(node.Cases) >= 1 /\ IsAndOr(node.LogicalOperator)

RECURSIVE TreeTruth(_, _, _)
RECURSIVE TreeTruthLoop(_, _, _, _)

\* the value of the first n cases of a node joined by its operator, when the
\* filters of the whole tree have the values truth in depth-first order and
\* base filters come before the node
TreeTruthLoop(cond, truth, base, n) ==
  LET c == cond.Cases[n]
      before == base + Len(FiltersOfCases(SubSeq(cond.Cases, 1, n - 1)))
      this == IF c.type = "filter" THEN truth[before + 1] ELSE TreeTruth(c, truth, before)
  IN IF n = 1 THEN this
     ELSE IF IsAnd(cond.LogicalOperator)
          THEN And3(TreeTruthLoop(cond, truth, base, n - 1), this)
     ELSE Or3(TreeTruthLoop(cond, truth, base, n - 1), this)

TreeTruth(cond, truth, base) == TreeTruthLoop(cond, truth, base, Len(cond.Cases))

Truths(n) == [1..n -> {"T", "F", "U"}]

\* the request being answered is a GetTable that reached the table-name check
ServedGetTable ==
  /\ pc = "done"
  /\ authorized(config, req.auth)
  /\ req.valid
  /\ req.command = GetTable
  /\ Get(req.params, "tableName").k = "str"

WithCondition == ServedGetTable /\ "condition" \in DOMAIN req.params

\* a statement built from a compiled condition
IsFilteredSelect(stmt) ==
  Len(stmt.text) >= 3 /\ stmt.text[1] = "SELECT * FROM" /\ stmt.text[3] = "WHERE"

IsUpdate(stmt) == stmt.text[1] = "UPDATE"

MentionsTable(stmt, t) == \E i \in 1..Len(stmt.text) : stmt.text[i] \in {t, Quote(t)}

RECURSIVE Malformed(_)
\* a condition parameter that is not a mapping, or whose cases are not a
\* list, or one of whose cases (at any depth) is not a mapping
Malformed(v) ==
  \/ v.k # "map"
  \/ /\ Get(v.m, "cases").k # "null"
     /\ \/ Get(v.m, "cases").k # "list"
        \/ \E i \in 1..Len(v.m.cases.l) :
             LET c == v.m.cases.l[i]
             IN \/ c.k # "map"
                \/ Get(c.m, "logicalOperator").k # "null" /\ Malformed(c)

\* a limit or offset parameter that is absent or a JSON number
PlainNumber(params, name) == Get(params, name).k \in {"null", "num"}

NumberOr(params, name, default) ==
  IF Get(params, name).k = "num" THEN params[name].n ELSE default

\* rows offset+1 .. offset+limit of a table
Slice(rows, limit, offset) ==
  LET n == IF Len(rows) - offset < limit THEN Len(rows) - offset ELSE limit
  IN [i \in 1..(IF n < 0 THEN 0 ELSE n) |-> rows[offset + i]]

PrimaryKeys(t) == {i \in 1..Len(Schema[t]) : Schema[t][i].pk > 0}

\* an UpdateRow on a table with one primary-key column, whose row lacks it
UpdateLacksKey(r) ==
  /\ authorized(config, r.auth)
  /\ r.valid
  /\ r.command = UpdateRow
  /\ Get(r.params, "tableName").k = "str"
  /\ r.params.tableName.s \in TableNames
  /\ Cardinality(PrimaryKeys(r.params.tableName.s)) = 1
  /\ Get(r.params, "row").k = "map"
  /\ \A i \in PrimaryKeys(r.params.tableName.s) :
       Schema[r.params.tableName.s][i].name \notin DOMAIN r.params.row.m

---------------------------------------------------------------------------
(* The properties.                                                         *)

\* C1: a compiled condition of one filter has no bound value when the
\* operator of the filter is a null check and exactly one bound value for
\* each of the other seven operators.
C1_BoundValuesPerFilter ==
  (/\ pc = "done"
   /\ compiled.st = "ok"
   /\ Len(compiled.cond.Cases) = 1
   /\ compiled.cond.Cases[1].type = "filter"
   /\ compiled.cond.Cases[1].Operator \in Operators)
  => Len(compiled.args)
       = IF compiled.cond.Cases[1].Operator \in NullChecks THEN 0 ELSE 1

\* C2: for every compiled condition tree with operators of the nine, the
\* fragment has as many placeholders as there are bound values, and the
\* k-th bound value is the value of the k-th value-bearing filter of the
\* tree in depth-first, left-to-right order.
C2_PlaceholdersMatchValues ==
  (pc = "done" /\ compiled.st = "ok" /\ KnownOperators(compiled.cond))
  => /\ Count(compiled.clause, "?") = Len(compiled.args)
     /\ compiled.args = ValueBearing(compiled.cond)

\* C3: every nested Condition case is compiled to its sub-fragment in
\* parentheses: the fragment has one balanced pair of parentheses for each
\* nested node, and for every tree of the grammar and every assignment of
\* truth values to its filters the fragment, read by SQL's precedence,
\* has the value the tree has.
C3_NestedGroupsParenthesized ==
  (pc = "done" /\ compiled.st = "ok")
  => LET cond == compiled.cond
         nested == Len(NodesOf(cond)) - 1
         cols == {f.Column : f \in Range(FiltersOf(cond))}
     IN /\ Count(compiled.clause, "(") = nested
        /\ Count(compiled.clause, ")") = nested
        /\ Balanced(compiled.clause, 1, Len(compiled.clause))
        /\ WellFormedTree(cond)
             => \A truth \in Truths(Len(FiltersOf(cond))) :
                  EvalStructure(compiled.clause, truth, cols) = TreeTruth(cond, truth, 0)

\* C3 witness: A AND (B OR C) has been compiled
C3_Witness ==
  /\ pc = "done"
  /\ compiled.st = "ok"
  /\ WellFormedTree(compiled.cond)
  /\ Len(compiled.cond.Cases) = 2
  /\ IsAnd(compiled.cond.LogicalOperator)
  /\ compiled.cond.Cases[1].type = "filter"
  /\ compiled.cond.Cases[2].type = "condition"
  /\ Len(compiled.cond.Cases[2].Cases) = 2
  /\ IsOr(compiled.cond.Cases[2].LogicalOperator)
  /\ Count(compiled.clause, "(") = 1

\* C4: a condition with no cases compiles to an empty fragment and no bound
\* values, and GetTable given such a condition on an existing table runs
\* the query without WHERE and with LIMIT and OFFSET, and answers with
\* rows offset+1 .. offset+limit of the table.
C4_EmptyCasesIsNoFilter ==
  (/\ WithCondition
   /\ toCondition(req.params.condition).st = "ok"
   /\ toCondition(req.params.condition).cond.Cases = <<>>
   /\ req.params.tableName.s \in TableNames
   /\ PlainNumber(req.params, "limit") /\ PlainNumber(req.params, "offset"))
  => LET t == req.params.tableName.s
         limit == NumberOr(req.params, "limit", DefaultLimit)
         offset == NumberOr(req.params, "offset", DefaultOffset)
         comp == getCondition(toCondition(req.params.condition).cond)
     IN /\ comp.clause = <<>> /\ comp.args = <<>>
        /\ \A i \in 1..Len(log) : ~IsFilteredSelect(log[i])
        /\ log[Len(log)].text
             = <<"SELECT * FROM", Quote(t), "LIMIT", ToString(limit),
                 "OFFSET", ToString(offset)>>
        /\ resp.status = StatusOK
        /\ resp.body.rows = Slice(db[t], limit, offset)

\* C4 witness: a condition without cases, an offset of 1, and rows returned
C4_Witness ==
  /\ WithCondition
  /\ toCondition(req.params.condition).st = "ok"
  /\ toCondition(req.params.condition).cond.Cases = <<>>
  /\ Get(req.params, "offset") = JNum(1)
  /\ resp.status = StatusOK
  /\ Len(resp.body.rows) >= 1
  /\ resp.body.rows[1] = db[req.params.tableName.s][2]

\* C5: when the condition of a GetTable holds a filter whose operator is
\* not one of the nine tokens, no statement built from the condition is
\* handed to the driver.
C5_UnknownOperatorBuildsNoSql ==
  (/\ WithCondition
   /\ toCondition(req.params.condition).st = "ok"
   /\ ~KnownOperators(toCondition(req.params.condition).cond))
  => \A i \in 1..Len(log) : ~IsFilteredSelect(log[i])

\* C6: a GetTable whose condition parameter is malformed (not a mapping,
\* cases not a list, a case that is not a mapping) is answered with the
\* BadRequest error and runs no statement.
C6_MalformedConditionIsBadRequest ==
  (WithCondition /\ Malformed(req.params.condition))
  => /\ resp = writeError(apiErrBadRequest("Invalid condition"))
     /\ log = <<>>

\* C7: in every statement handed to the driver, the table name, the columns
\* of the filters and the keys of the row that were spliced into the text
\* are names of the catalog (of the table named by the request).
C7_IdentifiersAreInCatalog ==
  pc = "done"
  => \A i \in 1..Len(log) :
       /\ IsFilteredSelect(log[i])
            => /\ req.params.tableName.s \in TableNames
               /\ \A f \in Range(FiltersOf(toCondition(req.params.condition).cond)) :
                    getClause(f) # <<>> => f.Column \in ColumnNames(req.params.tableName.s)
       /\ IsUpdate(log[i])
            => /\ req.params.tableName.s \in TableNames
               /\ DOMAIN req.params.row.m \subseteq ColumnNames(req.params.tableName.s)

\* C8: in the statements of one GetTable, DeleteRows or UpdateRow request,
\* a statement whose text holds the table name of the request comes after
\* a table-existence check of that name that found the table.
C8_TableCheckedBeforeUse ==
  (/\ pc = "done"
   /\ req.valid
   /\ req.command \in {GetTable, DeleteRows, UpdateRow}
   /\ Get(req.params, "tableName").k = "str")
  => \A i \in 1..Len(log) :
       MentionsTable(log[i], req.params.tableName.s)
         => \E j \in 1..(i - 1) :
              /\ log[j].text = <<SqlCheckTable>>
              /\ log[j].args = <<req.params.tableName.s>>
              /\ log[j].ok
              /\ log[j].n > 0

\* C8 witness: a DeleteRows has run its DELETE on the table
C8_Witness ==
  /\ pc = "done"
  /\ req.valid
  /\ req.command = DeleteRows
  /\ \E i \in 1..Len(log) :
       /\ log[i].text[1] = "DELETE FROM"
       /\ MentionsTable(log[i], req.params.tableName.s)
       /\ log[i].ok
       /\ log[i].n > 0

\* C9: a statement built from a condition and run by SQLite has AND or OR
\* between any two sibling cases: a condition with a node of two or more
\* cases whose logical operator is absent or other text is never run.
C9_JoinersAreAndOr ==
  (WithCondition /\ toCondition(req.params.condition).st = "ok")
  => \A i \in 1..Len(log) :
       (IsFilteredSelect(log[i]) /\ log[i].ok)
         => JoinersAreAndOr(toCondition(req.params.condition).cond)

\* C10: an UpdateRow on a table with a single primary key whose row has no
\* entry for the key is answered with an error, runs no UPDATE and leaves
\* the database as it was.
C10_MissingKeyRejected ==
  [][(pc = "idle" /\ pc' = "done" /\ UpdateLacksKey(req'))
       => /\ resp' = writeError(apiErrSomethingWentWrong)
          /\ \A i \in 1..Len(log') : ~IsUpdate(log'[i])
          /\ db' = db]_vars

\* C10 witness: such an UpdateRow has been answered, after the key check
C10_Witness ==
  /\ pc = "done"
  /\ UpdateLacksKey(req)
  /\ resp.status = StatusInternalServerError
  /\ Len(log) = 3

---------------------------------------------------------------------------
(* Updates and deletes.                                                    *)

\* the request just answered is a command on a table, sent with a body
\* that decodes and let through by the identity check
Served(command) ==
  /\ pc = "done"
  /\ authorized(config, req.auth)
  /\ req.valid
  /\ req.command = command
  /\ Get(req.params, "tableName").k = "str"

\* the step that answers an UpdateRow with status ok
UpdateSucceeds ==
  /\ pc = "idle"
  /\ Served(UpdateRow)'
  /\ resp' = Response(StatusOK, [status |-> "ok"])

\* the row mapping names the stored row: it has every key column, with the
\* value the stored row has
Names(row, stored, keys) ==
  \A k \in keys : k \in DOMAIN row /\ SqlValue(row[k]) = stored[k]

\* the rows of a table after the row mapping is applied as a patch
Patched(rows, row, keys) ==
  [i \in 1..Len(rows) |->
     IF Names(row, rows[i], keys)
     THEN [c \in DOMAIN rows[i] |->
             IF c \in DOMAIN row /\ c \notin keys THEN SqlValue(row[c]) ELSE rows[i][c]]
     ELSE rows[i]]

\* C11: after an UpdateRow answered with status ok, the table is the table
\* before with, in the row whose primary key is the one in the row mapping,
\* the non-key columns of the mapping set to its values; every other
\* column, the key, every other row and every other table are as before.
C11_UpdateIsPatch ==
  [][UpdateSucceeds
       => LET t == req'.params.tableName.s
          IN db' = [db EXCEPT ![t] = Patched(db[t], req'.params.row.m, KeyColumns(t))]]_vars

IsDelete(stmt) == stmt.text[1] = "DELETE FROM"

\* the ids of the request are a non-empty list of strings
IdsGiven ==
  /\ Get(req.params, "ids").k = "list"
  /\ req.params.ids.l # <<>>
  /\ \A i \in 1..Len(req.params.ids.l) : req.params.ids.l[i].k = "str"

\* the request just answered is an UpdateRow, or a DeleteRows with ids, on
\* a table of the database
ChangesTable ==
  /\ Served(UpdateRow) \/ (Served(DeleteRows) /\ IdsGiven)
  /\ req.params.tableName.s \in TableNames

\* C12: an UpdateRow, or a DeleteRows with ids, on a table whose primary key
\* is not exactly one column (none, or a composite key) is answered with an
\* error and runs no UPDATE and no DELETE.
C12_SingleKeyRequired ==
  (ChangesTable /\ Cardinality(KeyColumns(req.params.tableName.s)) # 1)
  => /\ resp.status # StatusOK
     /\ \A i \in 1..Len(log) : ~IsUpdate(log[i]) /\ ~IsDelete(log[i])

\* the request just answered is a DeleteRows with an empty list of ids on a
\* table of the database
DeletesNothing ==
  /\ Served(DeleteRows)
  /\ req.params.tableName.s \in TableNames
  /\ Get(req.params, "ids") = JList(<<>>)

\* C13: a DeleteRows with an empty list of ids on an existing table is
\* answered with success and rowsAffected 0, runs no DELETE and leaves the
\* database as it was, whatever the primary key of the table.
C13_EmptyIdsDeleteNothing ==
  [][(pc = "idle" /\ DeletesNothing')
       => /\ resp' = Response(StatusOK, [rowsAffected |-> "0"])
          /\ \A i \in 1..Len(log') : ~IsDelete(log'[i])
          /\ db' = db]_vars

\* C13 witness: such a DeleteRows has been answered with success on a table
\* without a primary key
C13_Witness ==
  /\ DeletesNothing
  /\ KeyColumns(req.params.tableName.s) = {}
  /\ resp.status = StatusOK
  /\ Len(log) = 1

\* the ids of the request are a list of strings
IdsWellFormed ==
  /\ Get(req.params, "ids").k = "list"
  /\ \A i \in 1..Len(req.params.ids.l) : req.params.ids.l[i].k = "str"

\* the request just answered is a DeleteRows with well-formed ids that names
\* a table the database does not have
DeletesFromMissingTable ==
  /\ Served(DeleteRows)
  /\ IdsWellFormed
  /\ req.params.tableName.s \notin TableNames

\* C14: a DeleteRows with well-formed ids that names a table the database
\* does not have is answered with status 400 and the message "Bad request:
\* invalid input", not with an internal error, and deletes nothing.
C14_MissingTableIsBadRequest ==
  [][(pc = "idle" /\ DeletesFromMissingTable')
       => /\ resp' = Response(400, [statusCode |-> 400, message |-> "Bad request: invalid input"])
          /\ \A i \in 1..Len(log') : ~IsDelete(log'[i])
          /\ db' = db]_vars

\* C14 witness: such a DeleteRows with two ids has been answered, after the
\* one look into the catalog
C14_Witness ==
  /\ DeletesFromMissingTable
  /\ Len(req.params.ids.l) = 2
  /\ resp.status = StatusBadRequest
  /\ Len(log) = 1

\* the step that answers a DeleteRows with ids with success
DeleteSucceeds ==
  /\ pc = "idle"
  /\ (Served(DeleteRows) /\ IdsGiven)'
  /\ resp'.status = StatusOK

\* the primary key of the stored row is one of the ids
KeyAmong(stored, keys, ids) ==
  \E k \in keys : keys = {k} /\ \E i \in 1..Len(ids) : ids[i].s = stored[k]

\* C15: a DeleteRows with ids answered with success runs exactly one DELETE,
\* with one placeholder per id; afterwards the table holds, unchanged and in
\* their order, the rows whose primary key is not among the ids and no
\* other row, and rowsAffected is the number of rows removed.
C15_DeleteRemovesIds ==
  [][DeleteSucceeds
       => LET t == req'.params.tableName.s
              ids == req'.params.ids.l
              deletes == {i \in 1..Len(log') : IsDelete(log'[i])}
          IN /\ Cardinality(deletes) = 1
             /\ \A i \in deletes : Count(log'[i].text, "?") = Len(ids)
             /\ db' = [db EXCEPT ![t] =
                         SelectSeq(db[t], LAMBDA row : ~KeyAmong(row, KeyColumns(t), ids))]
             /\ resp'.body = [rowsAffected |-> ToString(Len(db[t]) - Len(db'[t]))]]_vars

\* what the GetTable in progress reads from database d
Reads(d) == ExecSelect(d, plainQuery(reader.table, reader.limit, reader.offset), <<>>).rows

\* both requests have run to their end, the DeleteRows with success
BothDone == deleter.at = "done" /\ reader.at = "done"

\* C16: a GetTable that runs while a DeleteRows of several ids is in
\* progress on the same handle reads the table as it was before the delete
\* or as it is after it, never with some of the rows removed and others
\* still there.
C16_DeleteIsAtomic ==
  BothDone => reader.rows \in {Reads(InitDB), Reads(db)}

\* C16 witness: a delete that removed several rows of the table a GetTable
\* was reading, the GetTable having read the table after the delete
C16_Witness ==
  /\ BothDone
  /\ reader.table = deleter.table
  /\ deleter.rowsAffected >= 2
  /\ reader.rows = Reads(db)
  /\ Reads(db) # Reads(InitDB)

---------------------------------------------------------------------------
(* Reading a table.                                                        *)

\* the parameter is a JSON number that is not negative
Natural(params, name) == Get(params, name).k = "num" /\ params[name].n >= 0

\* the request just answered is a GetTable without a condition on a table of
\* the database, with a limit and an offset that are numbers
ReadsPage ==
  /\ ServedGetTable
  /\ "condition" \notin DOMAIN req.params
  /\ req.params.tableName.s \in TableNames
  /\ Natural(req.params, "limit")
  /\ Natural(req.params, "offset")

\* C17: a GetTable without a condition, with limit L >= 0 and offset O >= 0,
\* on an existing table answers with the rows at positions O+1 .. O+L of
\* the table, in the order of the table, fewer when the table ends first.
C17_PageOfTable ==
  ReadsPage
  => /\ resp.status = StatusOK
     /\ LET rows == db[req.params.tableName.s]
            L == req.params.limit.n
            O == req.params.offset.n
        IN /\ Len(resp.body.rows) = Min(L, IF Len(rows) > O THEN Len(rows) - O ELSE 0)
           /\ \A i \in 1..Len(resp.body.rows) : resp.body.rows[i] = rows[O + i]

\* C17 witness: limit 2 and offset 2 answered with the third and the fourth
\* row of the table
C17_Witness ==
  /\ ReadsPage
  /\ req.params.limit.n = 2
  /\ req.params.offset.n = 2
  /\ resp.status = StatusOK
  /\ resp.body.rows = <<db[req.params.tableName.s][3], db[req.params.tableName.s][4]>>

\* the request just answered is a GetTable whose condition converts and has
\* cases
ReadsFiltered ==
  /\ WithCondition
  /\ toCondition(req.params.condition).st = "ok"
  /\ toCondition(req.params.condition).cond.Cases # <<>>

\* the request just answered, sent without its offset
WithoutOffset ==
  [req EXCEPT !.params = [k \in DOMAIN req.params \ {"offset"} |-> req.params[k]]]

\* the rows of the table the condition of the request selects, all of them
Matching ==
  LET comp == getCondition(toCondition(req.params.condition).cond)
  IN ExecSelect(db, <<"SELECT * FROM", req.params.tableName.s, "WHERE">>
                      \o comp.clause \o <<"LIMIT", "-1">>, comp.args).rows

\* C18: the answer to a GetTable with a condition that has cases does not
\* depend on the offset: it is the answer to the same request sent without
\* an offset, so that two requests that differ in the offset only have the
\* same answer, and the rows answered are the first limit rows that match
\* the condition.
C18_OffsetIgnoredWhenFiltered ==
  ReadsFiltered
  => /\ HandlePostResult(config, db, WithoutOffset, <<>>).resp = resp
     /\ (resp.status = StatusOK /\ PlainNumber(req.params, "limit"))
          => resp.body.rows
               = SubSeq(Matching, 1,
                        Min(NumberOr(req.params, "limit", DefaultLimit), Len(Matching)))

\* C18 witness: a condition, an offset no smaller than the number of
\* matching rows, and the first matching row answered all the same
C18_Witness ==
  /\ ReadsFiltered
  /\ Natural(req.params, "offset")
  /\ resp.status = StatusOK
  /\ Matching # <<>>
  /\ req.params.offset.n >= Len(Matching)
  /\ resp.body.rows[1] = Matching[1]

\* the text is the decimal numeral of an integer
Numeral(str) == \E n \in IntRange : ToString(n) = str

\* the number a limit or offset parameter stands for: the number itself, the
\* number a numeric string spells, and the default for anything else
Effective(params, name, default) ==
  LET v == Get(params, name)
  IN IF v.k = "num" THEN v.n
     ELSE IF v.k = "str" /\ Numeral(v.s) THEN CHOOSE n \in IntRange : ToString(n) = v.s
     ELSE default

\* the request just answered is a GetTable without a condition on a table of
\* the database
ReadsTable ==
  /\ ServedGetTable
  /\ "condition" \notin DOMAIN req.params
  /\ req.params.tableName.s \in TableNames

\* C19: a GetTable whose limit or offset is a number or a numeric string is
\* answered with that limit and offset; when limit or offset is absent, a
\* string that is not numeric, a boolean, a list or a mapping, the request
\* is answered with success all the same, with the default in its place:
\* 100 for the limit, 0 for the offset.
C19_LooseLimitAndOffset ==
  ReadsTable
  => /\ resp.status = StatusOK
     /\ Effective(req.params, "limit", 100) >= 0
          => resp.body.rows = Slice(db[req.params.tableName.s],
                                    Effective(req.params, "limit", 100),
                                    Effective(req.params, "offset", 0))

\* C19 witness: a limit that is a list and an offset sent as the text "2",
\* answered with the rows from the third on
C19_Witness ==
  /\ ReadsTable
  /\ Get(req.params, "limit").k = "list"
  /\ Get(req.params, "offset") = JStr("2")
  /\ resp.status = StatusOK
  /\ Len(resp.body.rows) = Len(db[req.params.tableName.s]) - 2
  /\ resp.body.rows[1] = db[req.params.tableName.s][3]

\* the stored value satisfies the predicate of a filter; a column that is
\* null satisfies the null check and nothing else
Satisfies(stored, operator, value) ==
  IF operator = OperatorIsNull THEN stored = NULL
  ELSE IF operator = OperatorIsNotNull THEN stored # NULL
  ELSE IF stored = NULL THEN FALSE
  ELSE IF operator = OperatorEquals THEN stored = value
  ELSE IF operator = OperatorNotEquals THEN stored # value
  ELSE IF operator = OperatorLessThan THEN Rank(stored) < Rank(value)
  ELSE IF operator = OperatorLessThanOrEquals THEN Rank(stored) <= Rank(value)
  ELSE IF operator = OperatorGreaterThan THEN Rank(stored) > Rank(value)
  ELSE IF operator = OperatorGreaterThanOrEquals THEN Rank(stored) >= Rank(value)
  ELSE operator = OperatorLike /\ Contains(stored, value)

\* the request just answered is a GetTable on a table of the database whose
\* condition is one filter, with one of the nine operators, on a column of
\* the table
ReadsOneFilter ==
  /\ ReadsFiltered
  /\ req.params.tableName.s \in TableNames
  /\ PlainNumber(req.params, "limit")
  /\ LET cases == toCondition(req.params.condition).cond.Cases
     IN /\ Len(cases) = 1
        /\ cases[1].type = "filter"
        /\ cases[1].Operator \in Operators
        /\ cases[1].Column \in ColumnNames(req.params.tableName.s)

\* C20: a GetTable with a condition of one filter answers, in the order of
\* the table and up to limit, with exactly the rows that satisfy the
\* predicate of the filter, for each of the nine operators; like is
\* satisfied when the column contains the value as a substring.
C20_SingleFilterSelects ==
  ReadsOneFilter
  => /\ resp.status = StatusOK
     /\ LET f == toCondition(req.params.condition).cond.Cases[1]
            hits == SelectSeq(db[req.params.tableName.s],
                              LAMBDA row : Satisfies(row[f.Column], f.Operator, f.Value))
        IN resp.body.rows
             = SubSeq(hits, 1, Min(NumberOr(req.params, "limit", DefaultLimit), Len(hits)))

---------------------------------------------------------------------------
(* Errors, identity and the state of the database.                         *)

\* the request just answered was let through, decoded, and is a GetTable or
\* an UpdateRow with parameters of the right types that names a table the
\* database does not have
NamesMissingTable ==
  /\ Served(GetTable) \/ Served(UpdateRow)
  /\ req.params.tableName.s \notin TableNames
  /\ req.command = GetTable
       => ("condition" \in DOMAIN req.params => toCondition(req.params.condition).st = "ok")
  /\ req.command = UpdateRow => Get(req.params, "row").k = "map"

\* the request just answered failed after it reached the database: the
\* table it names is missing, the table has no primary key or the row lacks
\* it, or the driver returned an error for a statement
FailsAtDatabase ==
  /\ pc = "done"
  /\ log # <<>>
  /\ \/ NamesMissingTable
     \/ \E i \in 1..Len(log) : ~log[i].ok
     \/ ChangesTable /\ KeyColumns(req.params.tableName.s) = {}
     \/ UpdateLacksKey(req)

\* C21: a GetTable or UpdateRow that names a table the database does not
\* have, and every request that fails after reaching the database (no
\* primary key, an error of the driver, a filter on an unknown column), is
\* answered with status 500 and the message "Something went wrong" and
\* nothing else: no table name, no SQL text, no text of the driver.
C21_DatabaseFailuresAreOpaque ==
  FailsAtDatabase
  => resp = Response(500, [statusCode |-> 500, message |-> "Something went wrong"])

\* C21 witness: a filter on a column the table does not have, refused by the
\* driver and answered with status 500
C21_Witness ==
  /\ ReadsFiltered
  /\ req.params.tableName.s \in TableNames
  /\ \E i \in 1..Len(log) : IsFilteredSelect(log[i]) /\ ~log[i].ok
  /\ resp.status = StatusInternalServerError

\* the request just answered was let through, decoded and dispatched to the
\* handler of a command that takes a table name
Dispatched(command) ==
  /\ pc = "done"
  /\ authorized(config, req.auth)
  /\ req.valid
  /\ req.command = command

BadRequest(message) == Response(400, [statusCode |-> 400, message |-> message])

\* C22: a request with a required parameter absent or of the wrong type is
\* answered with status 400 and the message of that parameter, and no
\* statement is run: a tableName that is not a string in GetTable,
\* DeleteRows and UpdateRow; ids that are absent, not a list or hold an
\* element that is not a string; a row that is not a mapping.
C22_MissingParameterIsBadRequest ==
  /\ (/\ Dispatched(GetTable) \/ Dispatched(DeleteRows) \/ Dispatched(UpdateRow)
      /\ Get(req.params, "tableName").k # "str")
       => resp = BadRequest("Bad request: missing table name") /\ log = <<>>
  /\ (Served(DeleteRows) /\ ~IdsWellFormed)
       => resp = BadRequest("Bad request: invalid or missing ids") /\ log = <<>>
  /\ (Served(UpdateRow) /\ Get(req.params, "row").k # "map")
       => resp = BadRequest("Bad request: missing row") /\ log = <<>>

\* C22 witness: a DeleteRows whose ids hold a number, answered with status
\* 400 before any statement
C22_Witness ==
  /\ Served(DeleteRows)
  /\ Get(req.params, "ids").k = "list"
  /\ ~IdsWellFormed
  /\ resp.status = StatusBadRequest
  /\ log = <<>>

\* the handler has a username and a password
Configured == config.username # "" /\ config.password # ""

\* C23: with a username and a password configured, a request whose
\* Authorization header is not exactly username:password is answered with
\* status 401, whether or not its body decodes; no command is dispatched,
\* no statement is run and the database is as it was.
C23_WrongCredentialsRejected ==
  [][(/\ pc = "idle" /\ pc' = "done"
      /\ Configured
      /\ req'.auth # config.username \o ":" \o config.password)
       => /\ resp' = Response(401, [statusCode |-> 401, message |-> "Invalid credentials"])
          /\ log' = <<>>
          /\ db' = db]_vars

\* C23 witness: a DeleteRows with a wrong password and a body that decodes,
\* answered with status 401
C23_Witness ==
  /\ pc = "done"
  /\ Configured
  /\ req.auth = "user:wrong"
  /\ req.valid
  /\ req.command = DeleteRows
  /\ resp.status = StatusUnauthorized

\* the request just answered with success is a GetTable with includeInfo
ReadsInfo ==
  /\ ServedGetTable
  /\ Get(req.params, "includeInfo") = JBool(TRUE)
  /\ resp.status = StatusOK

\* C24: the tableInfo of a GetTable with includeInfo is read from the
\* database as it is when the request is served: after any sequence of
\* DeleteRows and UpdateRow its count is the number of rows the table has
\* now and its columns are the columns the table has now.
C24_TableInfoIsCurrent ==
  ReadsInfo
  => /\ resp.body.tableInfo.count = Len(db[req.params.tableName.s])
     /\ resp.body.tableInfo.columns = Schema[req.params.tableName.s]

\* C24 witness: rows have been deleted from the table, and the count
\* answered is the number of rows that are left
C24_Witness ==
  /\ ReadsInfo
  /\ Len(db[req.params.tableName.s]) < Len(InitDB[req.params.tableName.s])
  /\ resp.body.tableInfo.count = Len(db[req.params.tableName.s])

\* C25: when the username or the password of the handler is empty, also
\* with a username and an empty password, there is no identity check: no
\* request is answered with status 401, and a request with any
\* Authorization header is answered as the same request with the right
\* header is by a handler that has both.
C25_NoCheckUnlessBothSet ==
  [][(pc = "idle" /\ pc' = "done" /\ ~Configured)
       => /\ resp'.status # 401
          /\ req'.auth # "user:password"
               => \E order \in Orders(nonPKColumns(db, req')) :
                    \E out \in {HandlePostResult([username |-> "user", password |-> "password"],
                                                 db, [req' EXCEPT !.auth = "user:password"],
                                                 order)} :
                      resp' = out.resp /\ db' = out.db /\ log' = out.log]_vars

\* C25 witness: a handler with a username and no password has served a
\* DeleteRows sent with a wrong password
C25_Witness ==
  /\ pc = "done"
  /\ config.username # "" /\ config.password = ""
  /\ req.auth = "user:wrong"
  /\ req.valid
  /\ req.command = DeleteRows
  /\ resp.status = StatusOK
  /\ \E i \in 1..Len(log) : IsDelete(log[i])

\* C26: in the answer to a GetTable with includeInfo, no condition, offset
\* 0 and a limit of at least the size of the table, the count of tableInfo
\* is the number of rows answered, whatever DeleteRows runs at the same
\* time on the handle.
C26_CountMatchesRows ==
  (/\ reader.at = "done"
   /\ reader.includeInfo
   /\ reader.offset = 0
   /\ reader.limit >= Len(InitDB[reader.table]))
  => reader.count = Len(reader.rows)

\* the step answers a request with an error status, or answers a Ping, a
\* ListTables or a GetTable
ReadsOrFails ==
  /\ pc = "idle" /\ pc' = "done"
  /\ \/ resp'.status \in {400, 401, 500}
     \/ req'.command \in {Ping, ListTables, GetTable}

UpdatesNoRow ==
  /\ pc = "idle"
  /\ Served(UpdateRow)'
  /\ req'.params.tableName.s \in TableNames
  /\ Get(req'.params, "row").k = "map"
  /\ LET t == req'.params.tableName.s
         row == req'.params.row.m
     IN /\ Cardinality(KeyColumns(t)) = 1
        /\ KeyColumns(t) \subseteq DOMAIN row
        /\ \A i \in 1..Len(db[t]) : ~Names(row, db[t][i], KeyColumns(t))

\* the row sets a column that is not the key, names columns of the table
\* only, and has values the driver can bind
SetsColumns ==
  LET t == req'.params.tableName.s
      row == req'.params.row.m
  IN /\ DOMAIN row \ KeyColumns(t) # {}
     /\ DOMAIN row \subseteq ColumnNames(t)
     /\ \A c \in DOMAIN row : SqlValue(row[c]) # UNSUPPORTED

\* C28: an UpdateRow that sets columns of a table and whose primary-key
\* value no row of the table has is answered with status ok, and the table
\* is as it was: no row is changed and none is inserted.  The number of
\* rows the UPDATE changed plays no part in the answer.
C28_UpdateOfNoRowSucceeds ==
  [][(UpdatesNoRow /\ SetsColumns)
       => /\ resp' = Response(StatusOK, [status |-> "ok"])
          /\ db' = db]_vars

\* C28 witness: an UPDATE that changed no row, run without error, and the
\* request answered with status ok
C28_Witness ==
  /\ Served(UpdateRow)
  /\ resp = Response(StatusOK, [status |-> "ok"])
  /\ \E i \in 1..Len(log) : IsUpdate(log[i]) /\ log[i].ok /\ log[i].n = 0

\* C29: a GetTable answered with success has at most as many rows as the
\* limit in effect: the limit of the request when it is a number or a
\* numeric string, zero and negative numbers included, and 100 otherwise.
C29_RowsWithinLimit ==
  (ServedGetTable /\ resp.status = StatusOK)
  => Len(resp.body.rows) <= Effective(req.params, "limit", 100)

Decoded == pc = "done" /\ authorized(config, req.auth) /\ req.valid

KnownCommands == {Ping, ListTables, GetTable, DeleteRows, UpdateRow}

\* C30: every request whose body decodes is answered with one response, a
\* result or an error with a status, whatever the types of its parameters;
\* the handler never ends in a runtime panic, and a command that is none of
\* Ping, ListTables, GetTable, DeleteRows and UpdateRow is answered with
\* status 400 and no statement is run.
C30_AlwaysOneResponse ==
  Decoded
  => /\ resp # Panicked
     /\ resp.status \in {StatusOK, StatusBadRequest, StatusInternalServerError}
     /\ req.command \notin KnownCommands
          => resp.status = StatusBadRequest /\ log = <<>>

====
